---- MODULE Spec2Model ----
(***************************************************************************)
(* State-machine model of the mp4e muxer (src/src/mp4e.rs) together with   *)
(* its Annex-B splitter (src/src/nalu.rs) and bit reader (src/src/util.rs).*)
(* The sink is modelled as the list of byte segments it holds, each with   *)
(* its offset and length, so that appends, seeks and overwrites are        *)
(* visible.                                                                *)
(***************************************************************************)
EXTENDS Integers, Sequences, FiniteSets, TLC

\* ------------------------------------------------------------------ bounds
\* length of the movie, in frames of 33 ms, beyond which no further
\* encode_video call is made (guard on the muxer's duration)
MaxVideoCalls == 2
\* samples in the sink beyond which no further encode_* call is made
MaxSamples == 2
\* setup calls (set_video_track, set_audio_track, set_language,
\* set_create_time) beyond which no further one is made
MaxSetupCalls == 2

\* --------------------------------------------------------- program constants
HEVC_NALU_TYPE_VPS == 32
HEVC_NALU_TYPE_SPS == 33
HEVC_NALU_TYPE_PPS == 34
AVC_NALU_TYPE_SPS == 7
AVC_NALU_TYPE_PPS == 8
HEVC_NAL_BLA_W_LP == 16
HEVC_NAL_CRA_NUT == 21
AVC_NAL_ISLICE_NALU == 5
VIDEO_TIMESCALE == 90000
MOVIE_TIMESCALE == 1000
EPOCH_1904 == 2082844800
FTYP_SIZE == 24
FREE_SIZE == 8
MDAT_HDR_SIZE == 16
MDAT_SIZE_POS == 40
SCRATCH_SIZE == 4096

\* ------------------------------------------------------------- small helpers
None == <<>>
Some(x) == <<x>>
IsNone(o) == Len(o) = 0
IsSome(o) == Len(o) = 1
Unwrap(o) == o[1]

Max(a, b) == IF a > b THEN a ELSE b

\* truncation to u32, written with 16-bit halves
wrap32(x) == (x % 65536) + 65536 * ((x \div 65536) % 65536)

\* a * b on u32: whether the product leaves 32 bits, and its low 32 bits as
\* <<upper 16 bits, lower 16 bits>>.  Mul16 is the product of two 16-bit
\* values in the same form.
U32Mul(a, b) ==
  LET Mul16(x, y) ==
        <<((x \div 256) * y) \div 256
            + ((x % 256) * y + (((x \div 256) * y) % 256) * 256) \div 65536,
          ((x % 256) * y + (((x \div 256) * y) % 256) * 256) % 65536>>
      a1 == a \div 65536
      a0 == a % 65536
      b1 == b \div 65536
      b0 == b % 65536
      h  == Mul16(a1, b0)[2] + Mul16(a0, b1)[2] + Mul16(a0, b0)[1]
  IN [overflow |-> a1 * b1 > 0 \/ Mul16(a1, b0)[1] > 0 \/ Mul16(a0, b1)[1] > 0
                     \/ h > 65535,
      value |-> <<h % 65536, Mul16(a0, b0)[2]>>]

\* x / d on u32 for x in 16-bit halves and a divisor below 2^15
U32Div(x, d) == (x[1] \div d) * 65536 + ((x[1] % d) * 65536 + x[2]) \div d

\* ------------------------------------------------------------ util.rs
\* BitReader::get_bit: [bit |-> value, pos |-> new position]
\* get_bit taking the bits of a byte from the least significant end
GetBit_lsb_first(data, pos) ==
  IF pos >= Len(data) * 8
    THEN [bit |-> 0, pos |-> pos]
    ELSE LET byte_index == pos \div 8
             bit_index == pos % 8
         IN [bit |-> (data[byte_index + 1] \div (2 ^ bit_index)) % 2,
             pos |-> pos + 1]

GetBit(data, pos) ==
  IF pos >= Len(data) * 8
    THEN [bit |-> 0, pos |-> pos]
    ELSE LET byte_index == pos \div 8
             bit_index == 7 - (pos % 8)
         IN [bit |-> (data[byte_index + 1] \div (2 ^ bit_index)) % 2,
             pos |-> pos + 1]

\* the leading-zero loop of ue_bits: [capped, zeros, pos]
RECURSIVE UeLeadingZeros(_, _, _, _)
UeLeadingZeros(data, pos, leading_zeros, bits) ==
  LET g == GetBit(data, pos) IN
  IF g.bit = 0
    THEN IF leading_zeros + 1 >= bits
           THEN [capped |-> TRUE, zeros |-> leading_zeros + 1, pos |-> g.pos]
           ELSE UeLeadingZeros(data, g.pos, leading_zeros + 1, bits)
    ELSE [capped |-> FALSE, zeros |-> leading_zeros, pos |-> g.pos]

\* the suffix loop of ue_bits
RECURSIVE UeSuffix(_, _, _, _)
UeSuffix(data, pos, n, value) ==
  IF n = 0 THEN value
  ELSE LET g == GetBit(data, pos)
       IN UeSuffix(data, g.pos, n - 1, wrap32((value * 2) + g.bit))

\* BitReader::ue_bits on a fresh reader over data
ue_bits(data, bits) ==
  LET z == UeLeadingZeros(data, 0, 0, bits) IN
  IF z.capped THEN 0
  ELSE IF z.zeros = 0 THEN 0
  ELSE UeSuffix(data, z.pos, z.zeros, 1) - 1

\* ------------------------------------------------------------ nalu.rs
StartCode3At(d, e) == d[e + 1] = 0 /\ d[e + 2] = 0 /\ d[e + 3] = 1
StartCode4At(d, e) == d[e + 1] = 0 /\ d[e + 2] = 0 /\ d[e + 3] = 0 /\ d[e + 4] = 1

\* the scan for the end of the current unit
RECURSIVE FindEnd(_, _)
FindEnd(d, end) ==
  IF end >= Len(d) THEN end
  ELSE IF end + 3 < Len(d) /\ StartCode3At(d, end) THEN end
  ELSE IF end + 4 < Len(d) /\ StartCode4At(d, end) THEN end
  ELSE FindEnd(d, end + 1)

\* NaluIterator::next iterated to exhaustion: the units it yields, in order
RECURSIVE NaluIterator(_, _)
NaluIterator(d, position) ==
  IF position >= Len(d) THEN <<>>
  ELSE IF position = 0
    THEN IF Len(d) >= 4 /\ StartCode4At(d, 0) THEN NaluIterator(d, 4)
         ELSE IF Len(d) >= 3 /\ StartCode3At(d, 0) THEN NaluIterator(d, 3)
         ELSE <<d>>
    ELSE LET end == FindEnd(d, position) IN
         IF end < Len(d)
           THEN <<SubSeq(d, position + 1, end)>>
                  \o NaluIterator(SubSeq(d, end + 1, Len(d)), 0)
           ELSE <<SubSeq(d, position + 1, Len(d))>>

split_nalu(data) == NaluIterator(data, 0)

\* ------------------------------------------------------------ the sink
\* A segment is a run of bytes put into the sink: its kind, its offset (set
\* when it is written), its length, the size its box header declares (0 when
\* it is not a box) and up to three values carried by its bytes.
Seg(kind, len, size, val, aux, aux2) ==
  [kind |-> kind, off |-> 0, len |-> len, size |-> size, val |-> val,
   aux |-> aux, aux2 |-> aux2]

EmptySink == [segs |-> <<>>, pos |-> 0]

RECURSIVE SegsEnd(_)
SegsEnd(segs) ==
  IF segs = <<>> THEN 0
  ELSE Max(Head(segs).off + Head(segs).len, SegsEnd(Tail(segs)))

SinkLen(s) == SegsEnd(s.segs)

\* Write::write_all on a seekable sink at its cursor.  Segments wholly
\* covered by the write are replaced, a write past the end leaves a run of
\* zeros, an 8-byte write onto the size field of the large-size mdat header
\* patches that header, and any other partial overwrite clobbers its victim.
SinkWrite(s, seg) ==
  IF seg.len = 0 THEN s ELSE
  LET at == s.pos
      end == at + seg.len
      total == SegsEnd(s.segs)
      Covered(g) == at <= g.off /\ g.off + g.len <= end
      Disjoint(g) == g.off + g.len <= at \/ end <= g.off
      Patches(g) == g.kind = "mdat_hdr" /\ at = g.off + 8 /\ seg.len = 8
      patching == \E i \in 1..Len(s.segs) : Patches(s.segs[i])
      Touch(g) == IF Disjoint(g) THEN g
                  ELSE IF Patches(g) THEN [g EXCEPT !.val = seg.val]
                  ELSE [g EXCEPT !.kind = "clobbered"]
      kept == SelectSeq(s.segs, LAMBDA g : ~Covered(g))
      touched == [i \in 1..Len(kept) |-> Touch(kept[i])]
      gap == IF at > total
               THEN <<[Seg("zeros", at - total, 0, 0, 0, 0) EXCEPT !.off = total]>>
               ELSE <<>>
      new == IF patching THEN <<>> ELSE <<[seg EXCEPT !.off = at]>>
  IN [segs |-> SelectSeq(touched, LAMBDA g : g.off < at) \o gap \o new
                 \o SelectSeq(touched, LAMBDA g : g.off >= at),
      pos |-> end]

\* Seek::seek(SeekFrom::Start(p))
SinkSeek(s, p) == [s EXCEPT !.pos = p]

\* ------------------------------------------------ fragment boxes (mp4e.rs)
\* Each writer takes the scratch cursor position on entry and yields the
\* position on exit; mp4_box! makes the box size the difference.
\* write_mfhd numbering fragments from zero, as if the counter were bumped
\* after the moof is built instead of before
write_mfhd_from_zero(pos, fregment_id) ==
  LET mp4_box_start_pos == (pos + 4) - 4
      p1 == pos + 4 + 8
      p2 == p1 + 4
  IN [end |-> p2, size |-> wrap32(p2 - mp4_box_start_pos),
      sequence_number |-> fregment_id - 1]

write_mfhd(pos, fregment_id) ==
  LET mp4_box_start_pos == (pos + 4) - 4
      p1 == pos + 4 + 8
      p2 == p1 + 4
  IN [end |-> p2, size |-> wrap32(p2 - mp4_box_start_pos), sequence_number |-> fregment_id]

write_tfhd(pos, track, sample_duration) ==
  LET mp4_box_start_pos == (pos + 4) - 4
      p1 == pos + 4 + 4
      p2 == p1 + 4 + 4 + 4
  IN [end |-> p2, size |-> wrap32(p2 - mp4_box_start_pos),
      flags |-> IF track.track_type = "Video" THEN 131104 ELSE 131080]

\* write_trun pointing data_offset at the mdat box instead of its payload
\* (the 8 bytes of the mdat header left out)
write_trun_to_mdat_start(pos, moof_pos, track, data_size, sample_duration, sample_type) ==
  LET mp4_box_start_pos == (pos + 4) - 4
      p1 == pos + 4 + 4
      data_offset_pos == p1 + 4 + 4
      after_slot == data_offset_pos + 4
      end_pos == IF track.track_type = "Video"
                   THEN IF sample_type = "RandomAccess"
                          THEN after_slot + 4 + 4 + 4
                          ELSE after_slot + 4 + 4
                   ELSE after_slot + 4
      data_offset == wrap32(end_pos - moof_pos)
  IN [end |-> end_pos, size |-> wrap32(end_pos - mp4_box_start_pos),
      data_offset |-> data_offset, data_size |-> data_size,
      flags |-> IF track.track_type = "Video"
                  THEN IF sample_type = "RandomAccess" THEN 773 ELSE 769
                  ELSE 513]

write_trun(pos, moof_pos, track, data_size, sample_duration, sample_type) ==
  LET mp4_box_start_pos == (pos + 4) - 4
      p1 == pos + 4 + 4
      \* flags and sample count, then the data_offset slot
      data_offset_pos == p1 + 4 + 4
      after_slot == data_offset_pos + 4
      end_pos == IF track.track_type = "Video"
                   THEN IF sample_type = "RandomAccess"
                          THEN after_slot + 4 + 4 + 4
                          ELSE after_slot + 4 + 4
                   ELSE after_slot + 4
      data_offset == wrap32(end_pos - moof_pos + 8)
  IN [end |-> end_pos, size |-> wrap32(end_pos - mp4_box_start_pos),
      data_offset |-> data_offset, data_size |-> data_size,
      flags |-> IF track.track_type = "Video"
                  THEN IF sample_type = "RandomAccess" THEN 773 ELSE 769
                  ELSE 513]

\* write_traf staging the sample in the scratch buffer behind the trun
write_traf_holding_sample(pos, moof_pos, track, data_len, sample_duration, sample_type) ==
  LET mp4_box_start_pos == (pos + 4) - 4
      p1 == pos + 4 + 4
      tfhd == write_tfhd(p1, track, sample_duration)
      trun == write_trun(tfhd.end, moof_pos, track, wrap32(data_len + 4),
                         sample_duration, sample_type)
  IN [end |-> trun.end + data_len,
      size |-> wrap32(trun.end + data_len - mp4_box_start_pos), trun |-> trun]

write_traf(pos, moof_pos, track, data_len, sample_duration, sample_type) ==
  LET mp4_box_start_pos == (pos + 4) - 4
      p1 == pos + 4 + 4
      tfhd == write_tfhd(p1, track, sample_duration)
      trun == write_trun(tfhd.end, moof_pos, track, wrap32(data_len + 4),
                         sample_duration, sample_type)
  IN [end |-> trun.end, size |-> wrap32(trun.end - mp4_box_start_pos), trun |-> trun]

write_moof(pos, fregment_id, track, data_len, duration, sample_type) ==
  LET mp4_box_start_pos == (pos + 4) - 4
      moov_pos == (pos + 4) - 4
      p1 == pos + 4 + 4
      mfhd == write_mfhd(p1, fregment_id)
      traf == write_traf(mfhd.end, moov_pos, track, data_len, duration, sample_type)
  IN [end |-> traf.end, size |-> wrap32(traf.end - mp4_box_start_pos),
      sequence_number |-> mfhd.sequence_number,
      data_offset |-> traf.trun.data_offset,
      data_size |-> traf.trun.data_size]

\* ---------------------------------------------------- moov boxes (mp4e.rs)
\* Each operator is the number of bytes the like-named writer appends to the
\* moov scratch cursor, i.e. the size mp4_box! stores in the box.
AudioCodecsAAC == {"AACLC", "AACMAIN", "AACSSR", "AACLTP", "HEAAC", "HEAACV2"}

RECURSIVE od_size_of_size(_)
od_size_of_size(size) == IF size > 127 THEN 1 + od_size_of_size(size - 127) ELSE 1

\* the movie header reads the video track with unwrap()
mvhd_panics(m) == IsNone(m.video_track)

write_mvhd(m) ==
  IF m.create_time # 0
    THEN 4 + 4 + 4 + 8 + 8 + 4 + 8 + 4 + 2 + 10 + 36 + 24 + 4
    ELSE 4 + 4 + 4 + 4 + 4 + 4 + 4 + 4 + 2 + 10 + 36 + 24 + 4

\* duration field of tkhd: track.duration / (track.timescale / 1000)
tkhd_duration(track) == track.duration \div (track.timescale \div MOVIE_TIMESCALE)

\* the integer division by zero when the timescale is below 1000
tkhd_panics(track) == track.timescale \div MOVIE_TIMESCALE = 0

write_tkhd(track) == 4 + 4 + 4 + 4 + 4 + 4 + 4 + 4 + 12 + 2 + 2 + 36 + 8

write_hdlr(track) == 4 + 4 + 4 + 4 + 4 + 12 + 13

write_mdhd(track) == 4 + 4 + 4 + 4 + 4 + 4 + 4 + 2 + 2

write_vmhd == 4 + 4 + 4 + 8

write_smhd == 4 + 4 + 4 + 4

write_url == 4 + 4 + 4

write_dref == 4 + 4 + 4 + 4 + write_url

write_dinf == 4 + 4 + write_dref

HvccArray(ps) == 1 + (IF IsSome(ps) THEN 2 + 2 + Len(Unwrap(ps)) ELSE 2)

write_hvcc(track) ==
  4 + 4 + 1 + 1 + 4 + 2 + 4 + 1 + 2 + 1 + 1 + 1 + 1 + 2 + 1 + 1
    + HvccArray(track.vps) + HvccArray(track.sps) + HvccArray(track.pps)

\* avcC copies sps[1..4], which needs an SPS of at least four bytes
avcc_panics(track) == IsSome(track.sps) /\ Len(Unwrap(track.sps)) < 4

write_avcc(track) ==
  4 + 4 + 1
    + (IF IsSome(track.sps) THEN 3 + 1 + 1 + 2 + Len(Unwrap(track.sps)) ELSE 0)
    + (IF IsSome(track.pps) THEN 1 + 2 + Len(Unwrap(track.pps)) ELSE 0)

VisualSampleEntry == 2 + 2 + 4 + 4 + 4 + 2 + 32 + 2 + 2

write_hvc1(track) == 4 + 4 + 6 + 2 + 16 + VisualSampleEntry + write_hvcc(track)

write_avc1(track) == 4 + 4 + 6 + 2 + 16 + VisualSampleEntry + write_avcc(track)

write_esds(track) ==
  4 + 4 + 4
    + (IF IsSome(track.dsi)
         THEN LET dsi_bytes == Len(Unwrap(track.dsi))
                  dcd_bytes == dsi_bytes + od_size_of_size(dsi_bytes) + 1 + (1 + 1 + 3 + 4 + 4)
                  esd_bytes == dcd_bytes + od_size_of_size(dcd_bytes) + 1 + 3
              IN 1 + od_size_of_size(esd_bytes) + 3
                   + 1 + od_size_of_size(dcd_bytes) + 1 + 1 + 1 + 2 + 8
                   + 1 + od_size_of_size(dsi_bytes) + dsi_bytes
         ELSE 0)

AudioSampleEntry == 8 + 2 + 2 + 4 + 4

write_mp4a(track) == 4 + 4 + 4 + 2 + 2 + AudioSampleEntry + write_esds(track)

write_dops(track) == 4 + 4 + 1 + 2 + 2 + 4 + 2 + 1

write_opus(track) == 4 + 4 + 4 + 2 + 2 + AudioSampleEntry + write_dops(track)

write_stsd(track) ==
  4 + 4 + 4 + 4
    + (IF track.track_type = "Video"
         THEN CASE track.codec = "HEVC" -> write_hvc1(track)
                [] track.codec = "AVC" -> write_avc1(track)
                [] OTHER -> 0
         ELSE CASE track.codec \in AudioCodecsAAC -> write_mp4a(track)
                [] track.codec = "OPUS" -> write_opus(track)
                [] OTHER -> 0)

write_stsc(m) == 4 + 4 + 4 + (IF m.fragment THEN 4 ELSE 16)

write_stsz(track) == 4 + 4 + 4 + 4 + 4 + 4 * Len(track.samples)

\* Cursor<Vec<u8>> as the sample-table writers use it, in 4-byte words: buf
\* holds the words, pos is the byte position
EmptyCursor == [buf |-> <<>>, pos |-> 0]

\* Seek::seek(SeekFrom::Start(p)) on the cursor
CursorSeek(c, p) == [c EXCEPT !.pos = p]

\* write_all of one 4-byte word at the cursor: it replaces the word that is
\* there, or grows the vector, zero-filling any gap up to the cursor
CursorWrite(c, word) ==
  [buf |-> [k \in 1..Max(Len(c.buf), c.pos \div 4 + 1) |->
              IF k = c.pos \div 4 + 1 THEN word
              ELSE IF k <= Len(c.buf) THEN c.buf[k] ELSE 0],
   pos |-> c.pos + 4]

\* the end of mp4_box!: the size, position after the body minus position of
\* the box start, is copied into the four bytes at the box start
mp4_box(c, mp4_box_start_pos) ==
  [c EXCEPT !.buf[mp4_box_start_pos \div 4 + 1] = wrap32(c.pos - mp4_box_start_pos)]

\* the stts loop with cnt running on from one entry to the next, the reset
\* to 0 after an entry is written left out
RECURSIVE SttsLoop_cnt_kept(_, _, _, _, _)
SttsLoop_cnt_kept(samples, i, cnt, entry_count, c) ==
  IF i > Len(samples) THEN [cursor |-> c, entry_count |-> entry_count]
  ELSE IF i = Len(samples) \/ samples[i].sample_delta # samples[i + 1].sample_delta
    THEN SttsLoop_cnt_kept(samples, i + 1, wrap32(cnt + 1), wrap32(entry_count + 1),
                           CursorWrite(CursorWrite(c, cnt), samples[i].sample_delta))
    ELSE SttsLoop_cnt_kept(samples, i + 1, wrap32(cnt + 1), entry_count, c)

\* the for loop of write_stts from sample i on (i counts from 1): an entry
\* (cnt, sample_delta) is written at the last sample and wherever the next
\* sample has another delta
RECURSIVE SttsLoop(_, _, _, _, _)
SttsLoop(samples, i, cnt, entry_count, c) ==
  IF i > Len(samples) THEN [cursor |-> c, entry_count |-> entry_count]
  ELSE IF i = Len(samples) \/ samples[i].sample_delta # samples[i + 1].sample_delta
    THEN SttsLoop(samples, i + 1, wrap32(0 + 1), wrap32(entry_count + 1),
                  CursorWrite(CursorWrite(c, cnt), samples[i].sample_delta))
    ELSE SttsLoop(samples, i + 1, wrap32(cnt + 1), entry_count, c)

\* the end of write_stts: entry_count goes into the slot kept for it, the
\* cursor returns to end_pos, the box size is patched
stts_close(loop, mp4_box_start_pos, entry_count_idx) ==
  mp4_box(CursorSeek(CursorWrite(CursorSeek(loop.cursor, entry_count_idx),
                                 loop.entry_count),
                     loop.cursor.pos),
          mp4_box_start_pos)

\* write_stts on cursor c: size slot, "stts", version and flags, the slot of
\* entry_count, the entries
write_stts(c, track) ==
  stts_close(SttsLoop(track.samples, 1, 1, 0,
                      CursorSeek(CursorWrite(CursorWrite(CursorSeek(c, c.pos + 4), "stts"), 0),
                                 c.pos + 16)),
             c.pos, c.pos + 12)

\* the for loop of write_stss from sample i on (i counts from 1, which is
\* the index the loop writes)
RECURSIVE StssLoop(_, _, _, _)
StssLoop(samples, i, random_access_count, c) ==
  IF i > Len(samples)
    THEN [cursor |-> c, random_access_count |-> random_access_count]
  ELSE IF samples[i].random_access
    THEN StssLoop(samples, i + 1, wrap32(random_access_count + 1), CursorWrite(c, i))
    ELSE StssLoop(samples, i + 1, random_access_count, c)

\* the end of write_stss: random_access_count is written at entry_point + 12,
\* the cursor returns to end_pos, the box size is patched
stss_close(loop, mp4_box_start_pos, entry_point) ==
  mp4_box(CursorSeek(CursorWrite(CursorSeek(loop.cursor, entry_point + 12),
                                 loop.random_access_count),
                     loop.cursor.pos),
          mp4_box_start_pos)

\* write_stss on cursor c: size slot, "stss", version and flags, then the
\* indices from entry_point on (no slot is kept for the count)
write_stss(c, track) ==
  stss_close(StssLoop(track.samples, 1, 0,
                      CursorWrite(CursorWrite(CursorSeek(c, c.pos + 4), "stss"), 0)),
             c.pos, c.pos + 12)

\* A u64 file offset in three limbs <<upper 32 bits, bits 31..16, bits 15..0>>
\* (offsets beyond 4 GiB do not fit a model integer).  U64(x) is the offset x
\* as put_sample takes it from write_pos.
U64(x) == <<0, x \div 65536, x % 65536>>

\* write_pos += n on the limbs
Add64(o, n) ==
  <<o[1] + (o[2] + (o[3] + n) \div 65536) \div 65536,
    (o[2] + (o[3] + n) \div 65536) % 65536,
    (o[3] + n) % 65536>>

\* write_all of the words, one after the other
RECURSIVE CursorWriteAll(_, _)
CursorWriteAll(c, words) ==
  IF words = <<>> THEN c
  ELSE CursorWriteAll(CursorWrite(c, Head(words)), Tail(words))

\* write_co64: size slot, "co64", version and flags, the sample count, then
\* each offset in 8 bytes: the upper 32 bits and the lower 32 bits
write_co64(c, offsets) ==
  mp4_box(CursorWriteAll(CursorSeek(c, c.pos + 4),
                         <<"co64", 0, Len(offsets)>>
                           \o [k \in 1..(2 * Len(offsets)) |->
                                 IF k % 2 = 1 THEN offsets[(k + 1) \div 2][1]
                                 ELSE <<offsets[k \div 2][2], offsets[k \div 2][3]>>]),
          c.pos)

\* write_stco: the same with each offset cut to 32 bits (sample.offset as u32)
write_stco(c, offsets) ==
  mp4_box(CursorWriteAll(CursorSeek(c, c.pos + 4),
                         <<"stco", 0, Len(offsets)>>
                           \o [k \in 1..Len(offsets) |-> <<offsets[k][2], offsets[k][3]>>]),
          c.pos)

\* the chunk-offset box chosen by the first sample's offset instead of the
\* last one's
write_chunk_offsets_by_first(c, offsets) ==
  IF Len(offsets) > 0
    THEN IF offsets[1][1] > 0
           THEN write_co64(c, offsets) ELSE write_stco(c, offsets)
    ELSE c

\* the chunk-offset part of write_stbl: nothing for an empty sample list,
\* co64 when last_sample.offset > 0xffffffff, stco otherwise
write_chunk_offsets(c, offsets) ==
  IF Len(offsets) > 0
    THEN IF offsets[Len(offsets)][1] > 0
           THEN write_co64(c, offsets) ELSE write_stco(c, offsets)
    ELSE c

write_stbl(m, track) ==
  4 + 4 + write_stsd(track) + write_stts(EmptyCursor, track).pos + write_stsc(m)
    + write_stsz(track)
    + write_chunk_offsets(EmptyCursor,
                          [i \in 1..Len(track.samples) |-> U64(track.samples[i].offset)]).pos
    + (IF track.track_type = "Video" THEN write_stss(EmptyCursor, track).pos ELSE 0)

write_minf(m, track) ==
  4 + 4 + (IF track.track_type = "Video" THEN write_vmhd ELSE write_smhd)
    + write_dinf + write_stbl(m, track)

write_mdia(m, track) == 4 + 4 + write_mdhd(track) + write_hdlr(track) + write_minf(m, track)

write_track(m, track) == 4 + 4 + write_tkhd(track) + write_mdia(m, track)

\* the tracks in the order [video_track, audio_track], skipping None
TrackList(m) == m.video_track \o m.audio_track

\* the loop of write_tracks over the tracks that are set
RECURSIVE TracksLoop(_, _)
TracksLoop(m, tracks) ==
  IF tracks = <<>> THEN 0 ELSE write_track(m, Head(tracks)) + TracksLoop(m, Tail(tracks))

write_tracks(m) == TracksLoop(m, TrackList(m))

write_trex(track) == 4 + 8 + 4 + 4 + 12

\* the loop of write_trexs over the tracks that are set
RECURSIVE TrexLoop(_)
TrexLoop(tracks) ==
  IF tracks = <<>> THEN 0 ELSE write_trex(Head(tracks)) + TrexLoop(Tail(tracks))

write_trexs(m) == TrexLoop(TrackList(m))

write_mvex(m) == 4 + 4 + write_trexs(m)

\* building the moov panics where one of its writers does
moov_panics(m) ==
  \/ mvhd_panics(m)
  \/ \E i \in 1..Len(TrackList(m)) :
       \/ tkhd_panics(TrackList(m)[i])
       \/ (TrackList(m)[i].track_type = "Video" /\ TrackList(m)[i].codec = "AVC"
             /\ avcc_panics(TrackList(m)[i]))

write_moov_box(m) ==
  4 + 4 + write_mvhd(m) + write_tracks(m) + (IF m.fragment THEN write_mvex(m) ELSE 0)

\* ------------------------------------------------------ the muxer (mp4e.rs)
\* Mp4e::new_encoder; writer is the sink, puts and panicked are bookkeeping:
\* the put_sample calls of the operation in progress, and whether it panicked.
new_encoder(fragment) ==
  [fragment |-> fragment, init_header |-> FALSE, write_pos |-> 0, create_time |-> 0,
   fregment_id |-> 0, duration |-> 0, track_ids |-> 1, write_moov |-> FALSE,
   send_first_random_access |-> FALSE, language |-> "und", writer |-> EmptySink,
   video_track |-> None, audio_track |-> None, puts |-> <<>>, panicked |-> FALSE]

Panic(m) == [m EXCEPT !.panicked = TRUE]

get_sample_rate_idx(sample_rate) ==
  LET SAMPLE_RATE_ARRAY == <<96000, 88200, 64000, 48000, 44100, 32000, 24000,
                             22050, 16000, 12000, 11025, 8000, 7350>>
  IN IF \E i \in 1..13 : SAMPLE_RATE_ARRAY[i] = sample_rate
       THEN (CHOOSE i \in 1..13 : SAMPLE_RATE_ARRAY[i] = sample_rate) - 1
       ELSE 11

set_language(m, language) == [m EXCEPT !.language = language]

set_create_time(m, create_time) == [m EXCEPT !.create_time = create_time + EPOCH_1904]

set_audio_track(m, sample_rate, channel_count, codec) ==
  LET profile == CASE codec = "AACMAIN" -> 1 [] codec = "AACLC" -> 2
                   [] codec = "AACSSR" -> 3 [] codec = "AACLTP" -> 4
                   [] codec = "HEAAC" -> 5 [] codec = "HEAACV2" -> 29 [] OTHER -> 0
      idx == get_sample_rate_idx(sample_rate)
      dsi == IF codec = "OPUS" THEN None
             ELSE Some(<<(((profile * 8) % 256) + ((idx % 16) \div 2)) % 256,
                         (((idx % 2) * 128) + ((channel_count * 8) % 256)) % 256>>)
  IN [m EXCEPT
        !.audio_track = Some([id |-> m.track_ids, duration |-> 0, timescale |-> sample_rate,
                              samples |-> <<>>, sample_rate |-> sample_rate,
                              channel_count |-> channel_count, codec |-> codec,
                              width |-> 0, height |-> 0, dsi |-> dsi, vps |-> None,
                              sps |-> None, pps |-> None, track_type |-> "Audio"]),
        !.track_ids = wrap32(m.track_ids + 1)]

set_video_track(m, width, height, codec) ==
  [m EXCEPT
     !.video_track = Some([id |-> m.track_ids, duration |-> 0, timescale |-> VIDEO_TIMESCALE,
                           samples |-> <<>>, sample_rate |-> 0, channel_count |-> 0,
                           codec |-> codec, width |-> width, height |-> height,
                           dsi |-> None, vps |-> None, sps |-> None, pps |-> None,
                           track_type |-> "Video"]),
     !.track_ids = wrap32(m.track_ids + 1)]

\* writer.write_all(bytes) followed by write_pos += n
WriteAll(m, seg, n) ==
  [m EXCEPT !.writer = SinkWrite(m.writer, seg), !.write_pos = m.write_pos + n]

\* the mdat header of non-fragmented mode: size 1, largesize 0x10
write_mdat_header(m) ==
  WriteAll(m, Seg("mdat_hdr", MDAT_HDR_SIZE, 1, MDAT_HDR_SIZE, 0, 0), MDAT_HDR_SIZE)

\* the 32-byte literal holds a 24-byte ftyp box and an 8-byte free box
write_ftyp(m) ==
  [m EXCEPT !.writer = SinkWrite(SinkWrite(m.writer, Seg("ftyp", FTYP_SIZE, FTYP_SIZE, 0, 0, 0)),
                                 Seg("free", FREE_SIZE, FREE_SIZE, 0, 0, 0)),
            !.write_pos = m.write_pos + FTYP_SIZE + FREE_SIZE]

init_mp4(m) ==
  IF ~m.fragment THEN write_mdat_header(write_ftyp(m)) ELSE write_ftyp(m)

\* init_header_if_needed that never remembers it has run
init_header_every_call(m) == init_mp4(m)

init_header_if_needed(m) ==
  IF ~m.init_header THEN [init_mp4(m) EXCEPT !.init_header = TRUE] ELSE m

\* the number of SampleInfo records of a track, 0 when it is not set
SampleCount(track) == IF IsSome(track) THEN Len(Unwrap(track).samples) ELSE 0

\* the moov segment records whether it holds mvex and how many samples of
\* each track its tables describe
write_moov_bytes(m, end_pos) ==
  [WriteAll(m, Seg("moov", end_pos, wrap32(end_pos), IF m.fragment THEN 1 ELSE 0,
                   SampleCount(m.video_track), SampleCount(m.audio_track)),
            end_pos)
     EXCEPT !.write_moov = TRUE]

write_moov_if_needed(m) ==
  IF ~m.write_moov
    THEN IF moov_panics(m) THEN Panic(m) ELSE write_moov_bytes(m, write_moov_box(m))
    ELSE m

\* the fragment mdat: size, type, the NAL length for video, the payload
write_mdat(m, buf, video) ==
  WriteAll(m, Seg("mdat", 4 + 4 + (IF video THEN 4 ELSE 0) + Len(buf),
                  wrap32(Len(buf) + 8 + (IF video THEN 4 ELSE 0)), wrap32(Len(buf)),
                  Len(buf), IF video THEN 1 ELSE 0),
           wrap32(Len(buf) + 8 + (IF video THEN 4 ELSE 0)))

\* what put_sample is called with, and what the track held at that moment
PutRecord(m, data, duration, video, sample_type) ==
  [video |-> video, sample_type |-> sample_type, len |-> Len(data), data |-> data,
   duration |-> duration,
   gate |-> m.send_first_random_access,
   vps |-> video /\ IsSome(Unwrap(m.video_track).vps),
   sps |-> video /\ IsSome(Unwrap(m.video_track).sps),
   pps |-> video /\ IsSome(Unwrap(m.video_track).pps),
   codec |-> IF video THEN Unwrap(m.video_track).codec ELSE Unwrap(m.audio_track).codec]

\* put_sample, fragmented: the moof built in the 4096-byte scratch buffer is
\* copied to the sink and the mdat follows it
put_fragment_boxes(m, moof, data, video) ==
  IF moof.end > SCRATCH_SIZE THEN Panic(m)
  ELSE write_mdat(WriteAll(m, Seg("moof", moof.end, moof.size, moof.sequence_number,
                                  moof.data_offset, moof.data_size),
                           moof.end),
                  data, video)

\* put_sample, fragmented, once the moov is out: fregment_id += 1, then the
\* moof of the track the sample belongs to
put_fragment(m, data, duration, video, sample_type) ==
  IF m.panicked THEN m
  ELSE put_fragment_boxes(
         [m EXCEPT !.fregment_id = wrap32(m.fregment_id + 1)],
         write_moof(0, wrap32(m.fregment_id + 1),
                    IF video THEN Unwrap(m.video_track) ELSE Unwrap(m.audio_track),
                    Len(data), duration, sample_type),
         data, video)

\* put_sample, non-fragmented audio: one SampleInfo and the raw frame
put_audio(m, data, duration) ==
  WriteAll([m EXCEPT !.audio_track[1].samples =
                       Append(@, [random_access |-> TRUE, offset |-> m.write_pos,
                                  sample_size |-> wrap32(Len(data)),
                                  sample_delta |-> duration])],
           Seg("audio", Len(data), 0, 0, 0, 0), Len(data))

\* the 4-byte length and the NAL unit, write_pos advanced by the NAL unit's
\* length only
write_nal_pos_short(m, data) ==
  [m EXCEPT !.writer = SinkWrite(SinkWrite(m.writer,
                                           Seg("nal_size", 4, 0, wrap32(Len(data)), 0, 0)),
                                 Seg("nal", Len(data), 0, 0, 0, 0)),
            !.write_pos = m.write_pos + Len(data)]

\* the 4-byte length and the NAL unit
write_nal(m, data) ==
  [m EXCEPT !.writer = SinkWrite(SinkWrite(m.writer,
                                           Seg("nal_size", 4, 0, wrap32(Len(data)), 0, 0)),
                                 Seg("nal", Len(data), 0, 0, 0, 0)),
            !.write_pos = m.write_pos + Len(data) + 4]

\* put_sample, non-fragmented video: a new SampleInfo, or for a continuation
\* the last one grown (last_mut().unwrap() panics on an empty list)
put_video(m, data, duration, sample_type) ==
  IF sample_type \in {"Default", "RandomAccess"}
    THEN write_nal([m EXCEPT !.video_track[1].samples =
                               Append(@, [random_access |-> sample_type = "RandomAccess",
                                          offset |-> m.write_pos,
                                          sample_size |-> wrap32(Len(data) + 4),
                                          sample_delta |-> duration])],
                   data)
    ELSE IF Unwrap(m.video_track).samples = <<>> THEN Panic(m)
    ELSE write_nal([m EXCEPT !.video_track[1].samples[Len(Unwrap(m.video_track).samples)]
                               .sample_size = wrap32(@ + Len(data) + 4)],
                   data)

\* put_sample after the call is noted in puts
put_sample_body(m, data, duration, video, sample_type) ==
  IF m.fragment
    THEN put_fragment(write_moov_if_needed(m), data, duration, video, sample_type)
    ELSE IF ~video THEN put_audio(m, data, duration)
    ELSE put_video(m, data, duration, sample_type)

put_sample(m, data, duration, video, sample_type) ==
  put_sample_body(
    [m EXCEPT !.puts = Append(m.puts, PutRecord(m, data, duration, video, sample_type))],
    data, duration, video, sample_type)

\* the iteration of write_avc_frame storing every SPS and PPS it meets, the
\* is_none() tests left out (the last one wins)
avc_nalu_last_wins(m, frame_data, duration) ==
  IF Len(frame_data) = 0 THEN Panic(m) ELSE
  LET nalu_type == frame_data[1] % 32
      video_track == Unwrap(m.video_track)
  IN CASE nalu_type = AVC_NALU_TYPE_SPS ->
            [m EXCEPT !.video_track[1].sps = Some(frame_data)]
       [] nalu_type = AVC_NALU_TYPE_PPS ->
            [m EXCEPT !.video_track[1].pps = Some(frame_data)]
       [] OTHER ->
            IF ~IsNone(video_track.sps) /\ ~IsNone(video_track.pps)
              THEN LET first_mb_in_slice == ue_bits(Tail(frame_data), 1)
                       sample_type == IF first_mb_in_slice # 0 THEN "Continuation"
                                      ELSE IF nalu_type = AVC_NAL_ISLICE_NALU
                                             THEN "RandomAccess" ELSE "Default"
                   IN IF nalu_type = AVC_NAL_ISLICE_NALU
                        THEN put_sample([m EXCEPT !.send_first_random_access = TRUE],
                                        frame_data, duration, TRUE, sample_type)
                        ELSE IF m.send_first_random_access
                               THEN put_sample(m, frame_data, duration, TRUE, sample_type)
                               ELSE m
              ELSE m

\* one iteration of the loop of write_avc_frame
avc_nalu(m, frame_data, duration) ==
  IF Len(frame_data) = 0 THEN Panic(m) ELSE
  LET nalu_type == frame_data[1] % 32
      video_track == Unwrap(m.video_track)
  IN CASE nalu_type = AVC_NALU_TYPE_SPS ->
            IF IsNone(video_track.sps)
              THEN [m EXCEPT !.video_track[1].sps = Some(frame_data)] ELSE m
       [] nalu_type = AVC_NALU_TYPE_PPS ->
            IF IsNone(video_track.pps)
              THEN [m EXCEPT !.video_track[1].pps = Some(frame_data)] ELSE m
       [] OTHER ->
            IF ~IsNone(video_track.sps) /\ ~IsNone(video_track.pps)
              THEN LET first_mb_in_slice == ue_bits(Tail(frame_data), 1)
                       sample_type == IF first_mb_in_slice # 0 THEN "Continuation"
                                      ELSE IF nalu_type = AVC_NAL_ISLICE_NALU
                                             THEN "RandomAccess" ELSE "Default"
                   IN IF nalu_type = AVC_NAL_ISLICE_NALU
                        THEN put_sample([m EXCEPT !.send_first_random_access = TRUE],
                                        frame_data, duration, TRUE, sample_type)
                        ELSE IF m.send_first_random_access
                               THEN put_sample(m, frame_data, duration, TRUE, sample_type)
                               ELSE m
              ELSE m

\* send_first_random_access = true after put_sample(..)? has returned Ok
keyframe_sent(m) ==
  IF m.panicked THEN m ELSE [m EXCEPT !.send_first_random_access = TRUE]

\* one iteration of the loop of write_hevc_frame
hevc_nalu(m, frame_data, duration) ==
  IF Len(frame_data) = 0 THEN Panic(m) ELSE
  LET nalu_type == (frame_data[1] % 128) \div 2
      video_track == Unwrap(m.video_track)
  IN CASE nalu_type = HEVC_NALU_TYPE_VPS ->
            IF IsNone(video_track.vps)
              THEN [m EXCEPT !.video_track[1].vps = Some(frame_data)] ELSE m
       [] nalu_type = HEVC_NALU_TYPE_SPS ->
            IF IsNone(video_track.sps)
              THEN [m EXCEPT !.video_track[1].sps = Some(frame_data)] ELSE m
       [] nalu_type = HEVC_NALU_TYPE_PPS ->
            IF IsNone(video_track.pps)
              THEN [m EXCEPT !.video_track[1].pps = Some(frame_data)] ELSE m
       [] OTHER ->
            IF ~IsNone(video_track.vps) /\ ~IsNone(video_track.sps) /\ ~IsNone(video_track.vps)
              THEN IF nalu_type >= HEVC_NAL_BLA_W_LP /\ nalu_type <= HEVC_NAL_CRA_NUT
                     THEN keyframe_sent(put_sample(m, frame_data, duration, TRUE,
                                                   "RandomAccess"))
                     ELSE IF m.send_first_random_access
                            THEN put_sample(m, frame_data, duration, TRUE, "Default")
                            ELSE m
              ELSE m

\* the for loop of write_avc_frame over split_nalu(data); a panic ends it
RECURSIVE AvcLoop(_, _, _)
AvcLoop(m, nalus, duration) ==
  IF nalus = <<>> \/ m.panicked THEN m
  ELSE AvcLoop(avc_nalu(m, Head(nalus), duration), Tail(nalus), duration)

write_avc_frame(m, data, duration) == AvcLoop(m, split_nalu(data), duration)

\* the for loop of write_hevc_frame over split_nalu(data); a panic ends it
RECURSIVE HevcLoop(_, _, _)
HevcLoop(m, nalus, duration) ==
  IF nalus = <<>> \/ m.panicked THEN m
  ELSE HevcLoop(hevc_nalu(m, Head(nalus), duration), Tail(nalus), duration)

write_hevc_frame(m, data, duration) == HevcLoop(m, split_nalu(data), duration)

\* encode_audio without the test of send_first_random_access
encode_audio_ungated(m0, data, samples) ==
  LET Started(m) ==
        IF IsSome(m.audio_track)
          THEN put_sample([m EXCEPT !.audio_track[1].duration = wrap32(@ + samples)],
                          data, samples, FALSE, "RandomAccess")
          ELSE m
  IN Started(init_header_if_needed(m0))

encode_audio(m0, data, samples) ==
  LET Started(m) ==
        IF IsSome(m.audio_track) /\ m.send_first_random_access
          THEN put_sample([m EXCEPT !.audio_track[1].duration = wrap32(@ + samples)],
                          data, samples, FALSE, "RandomAccess")
          ELSE m
  IN Started(init_header_if_needed(m0))

encode_video(m0, data, duration_ms) ==
  LET Started(m) ==
        IF IsSome(m.video_track)
          THEN LET track == Unwrap(m.video_track)
                   duration == U32Div(U32Mul(duration_ms, track.timescale).value, 1000)
                   track_duration == wrap32(track.duration + duration)
                   m1 == [m EXCEPT !.video_track[1].duration = track_duration,
                                   !.duration = IF track_duration > m.duration
                                                  THEN track_duration ELSE m.duration]
               IN CASE track.codec = "AVC" -> write_avc_frame(m1, data, duration)
                    [] track.codec = "HEVC" -> write_hevc_frame(m1, data, duration)
                    [] OTHER -> m1
          ELSE m
  IN Started(init_header_if_needed(m0))

\* encode_video as a build with overflow checks runs it: the multiplication
\* panics when duration * track.timescale leaves u32.  (Where the product
\* fits the two builds do the same.)
encode_video_checked(m0, data, duration_ms) ==
  IF IsSome(m0.video_track)
       /\ U32Mul(duration_ms, Unwrap(m0.video_track).timescale).overflow
    THEN Panic(init_header_if_needed(m0))
    ELSE encode_video(m0, data, duration_ms)

\* write_mdat_size storing the whole write position, the 32 header bytes
\* not subtracted
write_mdat_size_whole(m) ==
  LET w1 == SinkWrite(SinkSeek(m.writer, MDAT_SIZE_POS),
                      Seg("mdat_size", 8, 0, m.write_pos, 0, 0))
  IN [m EXCEPT !.writer = SinkSeek(w1, m.write_pos)]

\* the 8-byte big-endian write at offset 40 and the seek back to write_pos
write_mdat_size(m) ==
  LET w1 == SinkWrite(SinkSeek(m.writer, MDAT_SIZE_POS),
                      Seg("mdat_size", 8, 0, m.write_pos - 32, 0, 0))
  IN [m EXCEPT !.writer = SinkSeek(w1, m.write_pos)]

\* flush that patches the mdat size again on every call
flush_repatching(m0) ==
  write_moov_if_needed(write_mdat_size(init_header_if_needed(m0)))

flush(m0) ==
  LET Started(m) ==
        IF ~m.write_moov THEN write_moov_if_needed(write_mdat_size(m)) ELSE m
  IN Started(init_header_if_needed(m0))

\* ------------------------------------------------------------------ inputs
StartCode3 == <<0, 0, 1>>
StartCode4 == <<0, 0, 0, 1>>
AvcSps == <<103, 66, 192, 13>>
AvcPps == <<104, 225>>
AvcSps2 == <<103, 66, 192, 30>>
AvcPps2 == <<104, 206>>
AvcIdr == <<101, 136, 132>>
AvcNonIdr == <<65, 154>>
AvcNonIdrCont == <<65, 64>>
HevcVps == <<64, 1, 12>>
HevcVps2 == <<64, 1, 13>>
HevcSps == <<66, 1, 1>>
HevcPps == <<68, 1, 192>>
HevcIdr == <<38, 1, 175, 9>>
HevcTrail == <<2, 1, 208>>

\* Annex-B buffers handed to encode_video, by the codec of the stream they
\* come from; the first AVC buffer carries other parameter sets than the
\* second, the fifth has two start codes in a row, the last one holds a
\* picture in two slices (first_mb_in_slice 0, then 1); the second HEVC
\* buffer carries another VPS than the first
AvcBuffers ==
  { StartCode4 \o AvcSps2 \o StartCode3 \o AvcPps2,
    StartCode4 \o AvcSps \o StartCode3 \o AvcPps \o StartCode3 \o AvcIdr,
    StartCode3 \o AvcNonIdr,
    StartCode3 \o AvcIdr \o StartCode3 \o AvcNonIdr,
    StartCode3 \o StartCode3 \o AvcIdr,
    StartCode3 \o AvcNonIdr \o StartCode3 \o AvcNonIdrCont }

HevcBuffers ==
  { StartCode4 \o HevcVps \o StartCode3 \o HevcSps,
    StartCode3 \o HevcVps2 \o StartCode3 \o HevcPps \o StartCode3 \o HevcIdr,
    StartCode3 \o HevcIdr,
    StartCode3 \o HevcTrail }

\* what a caller feeds: the stream of the track's codec (anything when no
\* video track is set, since the buffer is then not looked at)
VideoBuffers(track) ==
  IF IsNone(track) THEN {StartCode3 \o AvcIdr}
  ELSE IF Unwrap(track).codec = "AVC" THEN AvcBuffers ELSE HevcBuffers

AudioBuffers == { <<33, 16, 5>> }
DurationsMs == {33}
AudioSampleCounts == {1024}
VideoCodecs == {"AVC", "HEVC"}
Languages == {"jpn"}
CreateTimes == {1}

\* ------------------------------------------------------------------- state
VARIABLES fragment, init_header, write_pos, create_time, fregment_id, duration,
          track_ids, write_moov, send_first_random_access, language, writer,
          video_track, audio_track, puts, panicked, call, arg, ret

vars == <<fragment, init_header, write_pos, create_time, fregment_id, duration,
          track_ids, write_moov, send_first_random_access, language, writer,
          video_track, audio_track, puts, panicked, call, arg, ret>>

\* arg and ret are the argument and the result of a function of the crate
\* that is called on its own, outside a muxer operation; NoArg when none is
NoArg == [fn |-> "", data |-> <<>>, samples |-> <<>>]

\* the muxer as one record
Mux ==
  [fragment |-> fragment, init_header |-> init_header, write_pos |-> write_pos,
   create_time |-> create_time, fregment_id |-> fregment_id, duration |-> duration,
   track_ids |-> track_ids, write_moov |-> write_moov,
   send_first_random_access |-> send_first_random_access, language |-> language,
   writer |-> writer, video_track |-> video_track, audio_track |-> audio_track,
   puts |-> <<>>, panicked |-> panicked]

\* the type of a NAL unit as the track's codec reads its first byte
NaluType(track, nal) ==
  IF Unwrap(track).codec = "AVC" THEN nal[1] % 32 ELSE (nal[1] % 128) \div 2

\* the NAL units of a buffer that the frame writers treat as picture data:
\* everything that is not a parameter set of the track's codec
SliceNalus(track, data) ==
  LET ParamSetTypes == IF Unwrap(track).codec = "AVC"
                         THEN {AVC_NALU_TYPE_SPS, AVC_NALU_TYPE_PPS}
                         ELSE {HEVC_NALU_TYPE_VPS, HEVC_NALU_TYPE_SPS, HEVC_NALU_TYPE_PPS}
      IsSlice(nal) == Len(nal) > 0 /\ NaluType(track, nal) \notin ParamSetTypes
  IN IF IsNone(track) THEN <<>> ELSE SelectSeq(split_nalu(data), IsSlice)

\* the keyframe NAL units among them: an AVC IDR slice (type 5) or an HEVC
\* unit of type 16..21
KeyNalus(track, data) ==
  LET IsKey(nal) == IF Unwrap(track).codec = "AVC"
                      THEN NaluType(track, nal) = AVC_NAL_ISLICE_NALU
                      ELSE NaluType(track, nal) >= HEVC_NAL_BLA_W_LP
                             /\ NaluType(track, nal) <= HEVC_NAL_CRA_NUT
  IN SelectSeq(SliceNalus(track, data), IsKey)

\* the muxer after an operation, and the operation that was called: its
\* name and, for encode_video, whether the buffer held a keyframe NAL unit
\* and how many picture NAL units it held
Becomes(r, op, key, slices) ==
  /\ fragment' = r.fragment
  /\ init_header' = r.init_header
  /\ write_pos' = r.write_pos
  /\ create_time' = r.create_time
  /\ fregment_id' = r.fregment_id
  /\ duration' = r.duration
  /\ track_ids' = r.track_ids
  /\ write_moov' = r.write_moov
  /\ send_first_random_access' = r.send_first_random_access
  /\ language' = r.language
  /\ writer' = r.writer
  /\ video_track' = r.video_track
  /\ audio_track' = r.audio_track
  /\ puts' = r.puts
  /\ panicked' = r.panicked
  /\ call' = [op |-> op, key |-> key, slices |-> slices]
  /\ UNCHANGED <<arg, ret>>

\* the muxer as new_encoder leaves it
Fresh(f) ==
  LET r == new_encoder(f) IN
  /\ fragment = r.fragment
  /\ init_header = r.init_header
  /\ write_pos = r.write_pos
  /\ create_time = r.create_time
  /\ fregment_id = r.fregment_id
  /\ duration = r.duration
  /\ track_ids = r.track_ids
  /\ write_moov = r.write_moov
  /\ send_first_random_access = r.send_first_random_access
  /\ language = r.language
  /\ writer = r.writer
  /\ video_track = r.video_track
  /\ audio_track = r.audio_track
  /\ puts = r.puts
  /\ panicked = r.panicked
  /\ call = [op |-> "new", key |-> FALSE, slices |-> 0]

\* Mp4e::new (fragment = FALSE) or Mp4e::new_with_fragment (fragment = TRUE)
Init ==
  \E f \in BOOLEAN :
    /\ Fresh(f)
    /\ arg = NoArg
    /\ ret = None

\* the setup calls made so far: each set_*_track call hands out a track id,
\* and the two metadata setters are called only to change the value
SetupCalls ==
  (track_ids - 1) + (IF language # "und" THEN 1 ELSE 0)
                  + (IF create_time # 0 THEN 1 ELSE 0)

SetLanguage ==
  /\ ~panicked
  /\ SetupCalls < MaxSetupCalls
  /\ \E l \in Languages \ {language} :
       \E r \in {set_language(Mux, l)} : Becomes(r, "set_language", FALSE, 0)

SetCreateTime ==
  /\ ~panicked
  /\ SetupCalls < MaxSetupCalls
  /\ \E t \in CreateTimes :
       /\ create_time # t + EPOCH_1904
       /\ \E r \in {set_create_time(Mux, t)} : Becomes(r, "set_create_time", FALSE, 0)

SetAudioTrack ==
  /\ ~panicked
  /\ IsNone(audio_track)
  /\ SetupCalls < MaxSetupCalls
  /\ \E r \in {set_audio_track(Mux, 48000, 2, "AACLC")} :
       Becomes(r, "set_audio_track", FALSE, 0)

SetVideoTrack ==
  /\ ~panicked
  /\ SetupCalls < MaxSetupCalls
  /\ \E c \in VideoCodecs :
       \E r \in {set_video_track(Mux, 640, 480, c)} :
         Becomes(r, "set_video_track", FALSE, 0)

\* the samples the sink holds: fragment mdats, NAL units and audio frames
SamplesInSink ==
  Len(SelectSeq(writer.segs, LAMBDA g : g.kind \in {"mdat", "nal", "audio"}))

EncodeVideo ==
  /\ ~panicked
  /\ SamplesInSink < MaxSamples
  /\ duration < MaxVideoCalls * 2970
  /\ \E b \in VideoBuffers(video_track), d \in DurationsMs :
       \E r \in {encode_video(Mux, b, d)} :
         Becomes(r, "encode_video",
                 Len(KeyNalus(video_track, b)) > 0, Len(SliceNalus(video_track, b)))

EncodeAudio ==
  /\ ~panicked
  /\ SamplesInSink < MaxSamples
  /\ \E b \in AudioBuffers, n \in AudioSampleCounts :
       \E r \in {encode_audio(Mux, b, n)} : Becomes(r, "encode_audio", FALSE, 0)

Flush ==
  /\ ~panicked
  /\ \E r \in {flush(Mux)} : Becomes(r, "flush", FALSE, 0)

\* the operations on tracks and samples
Next ==
  \/ SetAudioTrack
  \/ SetVideoTrack
  \/ EncodeVideo
  \/ EncodeAudio
  \/ Flush

Spec == Init /\ [][Next]_vars

\* The muxer used in the order its lifecycle asks for: tracks are set up
\* before the header is out, and in non-fragmented mode samples are encoded
\* until the moov is written.
SetTrackEarly ==
  /\ ~init_header
  /\ (SetAudioTrack \/ SetVideoTrack)

EncodeBeforeFlush ==
  /\ ~fragment
  /\ ~write_moov
  /\ (EncodeVideo \/ EncodeAudio)

SpecOrdered == Init /\ [][SetTrackEarly \/ EncodeBeforeFlush \/ Flush]_vars

\* every public operation, the two metadata setters included
NextSetup ==
  \/ SetLanguage
  \/ SetCreateTime
  \/ Next

SpecSetup == Init /\ [][NextSetup]_vars

\* ------------------------------------------- functions called on their own
\* bounds of the arguments: bytes after the leading start code of a buffer,
\* samples of a sample list
MaxNaluTail == 4
MaxTableSamples == 4
MaxUePrefix == 9

\* the sequences over S of length 0..n
SeqsUpTo(S, n) == UNION { [1..k -> S] : k \in 0..n }

\* byte values that matter to the splitter: 0, 1 and one other
NaluBytes == {0, 1, 101}

\* sample_delta of a 33 ms and of a 40 ms video frame
TableDeltas == {2970, 3600}

\* a sample list as put_sample builds it in non-fragmented mode: 7-byte
\* samples one after the other from offset 48
TableSamples(q) ==
  [i \in 1..Len(q) |->
     [random_access |-> q[i][1], offset |-> U64(48 + 7 * (i - 1)), sample_size |-> 7,
      sample_delta |-> q[i][2]]]

SplitArgs ==
  { [fn |-> "split_nalu", data |-> sc \o t, samples |-> <<>>] :
      sc \in {StartCode3, StartCode4}, t \in SeqsUpTo(NaluBytes, MaxNaluTail) }

TableArgs ==
  { [fn |-> f, data |-> <<>>, samples |-> TableSamples(q)] :
      f \in {"write_stts", "write_stss"},
      q \in SeqsUpTo(BOOLEAN \X TableDeltas, MaxTableSamples) }

\* a sample list as put_sample builds it when write_pos is base before the
\* first sample: every sample begins where the one before it ends
ChunkSamples(base, sizes) ==
  LET RECURSIVE OffsetAt(_)
      OffsetAt(i) == IF i = 1 THEN base ELSE Add64(OffsetAt(i - 1), sizes[i - 1])
  IN  [i \in 1..Len(sizes) |->
         [random_access |-> TRUE, offset |-> OffsetAt(i), sample_size |-> sizes[i],
          sample_delta |-> 2970]]

\* sample lists that begin at 48, at 0xfffffff0 and at 0x100000000
ChunkArgs ==
  { [fn |-> "write_chunk_offsets", data |-> <<>>, samples |-> ChunkSamples(base, sizes)] :
      base \in {U64(48), <<0, 65535, 65520>>, <<1, 0, 0>>},
      sizes \in SeqsUpTo({7, 9}, MaxTableSamples) }

\* frame durations in milliseconds: 33, 40, 3600, the largest whose product
\* with 90000 fits u32 and the next one
DurationArgs ==
  { [fn |-> "encode_video", data |-> <<>>, samples |-> <<>>, duration_ms |-> d] :
      d \in {33, 40, 3600, 47721, 47722} }

\* readers over up to two bytes and prefix limits from 0 to MaxUePrefix
UeArgs ==
  { [fn |-> "ue_bits", data |-> d, samples |-> <<>>, bits |-> n] :
      d \in SeqsUpTo({0, 1, 5, 16, 37, 64, 128, 255}, 2), n \in 0..MaxUePrefix }

\* the cursor of write_stbl when it comes to a sample table: the size slot
\* of stbl and its type are behind it
StblCursor == CursorWrite(CursorSeek(EmptyCursor, 4), "stbl")

\* a video track whose sample list is samples
TrackWith(samples) ==
  [Unwrap(set_video_track(new_encoder(FALSE), 640, 480, "AVC").video_track)
     EXCEPT !.samples = samples]

\* tracks as they stand when the moov is written: the video track after up
\* to MaxTableSamples frames of 33 ms, and an audio track at 48000, 44100 and
\* 11025 Hz after as many frames of 1024 samples
TkhdArgs ==
  { [fn |-> "write_tkhd", data |-> <<>>, samples |-> <<>>, track |-> t] :
      t \in { [TrackWith(<<>>) EXCEPT !.duration = 2970 * k] : k \in 0..MaxTableSamples }
             \cup { [Unwrap(set_audio_track(new_encoder(FALSE), r, 2, "AACLC").audio_track)
                       EXCEPT !.duration = 1024 * k] :
                      r \in {48000, 44100, 11025}, k \in 0..MaxTableSamples } }

\* the moof of a video sample of each type and of an audio sample, for
\* payloads from empty to 2 GiB
MoofArgs ==
  { [fn |-> "write_moof", data |-> <<>>, samples |-> <<>>, track |-> a[1],
     sample_type |-> a[2], data_len |-> n] :
      a \in ({TrackWith(<<>>)} \X {"Default", "RandomAccess", "Continuation"})
               \cup {<<Unwrap(set_audio_track(new_encoder(TRUE), 48000, 2, "AACLC").audio_track),
                       "RandomAccess">>},
      n \in {0, 3, 4068, 4096, 65536, 2147483643} }

muxvars == <<fragment, init_header, write_pos, create_time, fregment_id, duration,
             track_ids, write_moov, send_first_random_access, language, writer,
             video_track, audio_track, puts, panicked, call>>

InitPure ==
  /\ Fresh(FALSE)
  /\ arg \in SplitArgs \cup TableArgs \cup ChunkArgs \cup DurationArgs \cup TkhdArgs
                 \cup UeArgs \cup MoofArgs
  /\ ret = None

SplitNalu ==
  /\ arg.fn = "split_nalu"
  /\ ret = None
  /\ ret' = Some(split_nalu(arg.data))
  /\ UNCHANGED <<muxvars, arg>>

WriteStts ==
  /\ arg.fn = "write_stts"
  /\ ret = None
  /\ ret' = Some(write_stts(StblCursor, TrackWith(arg.samples)))
  /\ UNCHANGED <<muxvars, arg>>

WriteStss ==
  /\ arg.fn = "write_stss"
  /\ ret = None
  /\ ret' = Some(write_stss(StblCursor, TrackWith(arg.samples)))
  /\ UNCHANGED <<muxvars, arg>>

WriteChunkOffsets ==
  /\ arg.fn = "write_chunk_offsets"
  /\ ret = None
  /\ ret' = Some(write_chunk_offsets(StblCursor,
                                      [i \in 1..Len(arg.samples) |-> arg.samples[i].offset]))
  /\ UNCHANGED <<muxvars, arg>>

\* a muxer that is given its video track
SetVideoTrackFirst ==
  /\ arg.fn = "encode_video"
  /\ call.op = "new"
  /\ SetVideoTrack

\* the first encode_video call, with the duration of arg, in either build,
\* on a buffer without empty NAL units
EncodeVideoFirst ==
  /\ arg.fn = "encode_video"
  /\ call.op = "set_video_track"
  /\ \E b \in {x \in VideoBuffers(video_track) :
                  \A k \in 1..Len(split_nalu(x)) : Len(split_nalu(x)[k]) > 0} :
       \E r \in {encode_video(Mux, b, arg.duration_ms),
                 encode_video_checked(Mux, b, arg.duration_ms)} :
         Becomes(r, "encode_video",
                 Len(KeyNalus(video_track, b)) > 0, Len(SliceNalus(video_track, b)))

\* the duration field of write_tkhd
WriteTkhd ==
  /\ arg.fn = "write_tkhd"
  /\ ret = None
  /\ ret' = Some(tkhd_duration(arg.track))
  /\ UNCHANGED <<muxvars, arg>>

UeBits ==
  /\ arg.fn = "ue_bits"
  /\ ret = None
  /\ ret' = Some(ue_bits(arg.data, arg.bits))
  /\ UNCHANGED <<muxvars, arg>>

\* the moof as put_sample builds it at the start of its scratch buffer
WriteMoof ==
  /\ arg.fn = "write_moof"
  /\ ret = None
  /\ ret' = Some(write_moof(0, 1, arg.track, arg.data_len, 2970, arg.sample_type))
  /\ UNCHANGED <<muxvars, arg>>

NextPure ==
  \/ WriteMoof
  \/ UeBits
  \/ WriteTkhd
  \/ SetVideoTrackFirst
  \/ EncodeVideoFirst
  \/ SplitNalu
  \/ WriteStts
  \/ WriteStss
  \/ WriteChunkOffsets

SpecPure == InitPure /\ [][NextPure]_vars

\* ------------------------------------------------------------- properties
\* what the properties read off the state
SegsOfKind(w, kinds) == SelectSeq(w.segs, LAMBDA g : g.kind \in kinds)

CountKind(w, kind) == Len(SegsOfKind(w, {kind}))

HeaderKinds == {"ftyp", "free", "mdat_hdr"}

SampleKinds == {"nal_size", "nal", "audio"}

\* the segments of the sink that are not part of the file header
BeyondHeader(w) == SelectSeq(w.segs, LAMBDA g : g.kind \notin HeaderKinds)

RECURSIVE SumLen(_)
SumLen(segs) == IF segs = <<>> THEN 0 ELSE Head(segs).len + SumLen(Tail(segs))

TrackSamples(t) == IF IsSome(t) THEN Unwrap(t).samples ELSE <<>>

IsEncode(c) == c.op \in {"encode_video", "encode_audio"}

IsSetup(c) ==
  c.op \in {"set_video_track", "set_audio_track", "set_language", "set_create_time"}

\* the parameter sets a track needs before it may carry samples
ParamSetsCaptured(t) ==
  /\ IsSome(t)
  /\ IsSome(Unwrap(t).sps)
  /\ IsSome(Unwrap(t).pps)
  /\ (Unwrap(t).codec = "HEVC" => IsSome(Unwrap(t).vps))

\* each segment starts where the one before it ends
Contiguous(segs) ==
  /\ (segs # <<>> => segs[1].off = 0)
  /\ \A i \in 2..Len(segs) : segs[i].off = segs[i-1].off + segs[i-1].len

\* ---- C1
\* a call the keyframe gate is there to drop: no keyframe accepted so far,
\* and the call is encode_audio or an encode_video without a keyframe NAL
GateClosedCall ==
  /\ ~send_first_random_access
  /\ \/ call'.op = "encode_audio"
     \/ (call'.op = "encode_video" /\ ~call'.key)

\* C1: while no keyframe has been accepted, every encode_audio call and
\* every encode_video call without a keyframe NAL unit records no SampleInfo,
\* puts no sample and writes nothing but the one-time header; once a keyframe
\* has been accepted, an audio frame (on a muxer with an audio track) and the
\* non-keyframe picture NAL units of a video buffer (on a track whose
\* parameter sets are captured) are put and written.
C1_KeyframeGate ==
  [][ /\ GateClosedCall =>
           /\ puts' = <<>>
           /\ TrackSamples(video_track') = TrackSamples(video_track)
           /\ TrackSamples(audio_track') = TrackSamples(audio_track)
           /\ BeyondHeader(writer') = BeyondHeader(writer)
           /\ (init_header => writer' = writer)
           /\ send_first_random_access' = send_first_random_access
      /\ (send_first_random_access /\ call'.op = "encode_audio" /\ IsSome(audio_track)) =>
           /\ Len(puts') = 1
           /\ SinkLen(writer') > SinkLen(writer)
           /\ CountKind(writer', IF fragment THEN "mdat" ELSE "audio")
                = CountKind(writer, IF fragment THEN "mdat" ELSE "audio") + 1
           /\ (~fragment => Len(TrackSamples(audio_track'))
                              = Len(TrackSamples(audio_track)) + 1)
      /\ (send_first_random_access /\ call'.op = "encode_video" /\ ~call'.key
            /\ ParamSetsCaptured(video_track)) =>
           /\ Len(puts') = call'.slices
           /\ CountKind(writer', IF fragment THEN "mdat" ELSE "nal")
                = CountKind(writer, IF fragment THEN "mdat" ELSE "nal") + call'.slices
           /\ (~fragment => Len(TrackSamples(video_track'))
                              = Len(TrackSamples(video_track)) + call'.slices)
      /\ (send_first_random_access => send_first_random_access')
    ]_vars

\* a non-keyframe picture was offered to a track that holds its parameter
\* sets and was dropped, the gate being the only reason
C1_Witness ==
  /\ call.op = "encode_video"
  /\ ~call.key
  /\ call.slices > 0
  /\ ~send_first_random_access
  /\ ParamSetsCaptured(video_track)
  /\ IsSome(audio_track)
  /\ BeyondHeader(writer) = <<>>
  /\ init_header

\* ---- C2
\* C2: every track whose sample list is non-empty has random_access = TRUE
\* on its first SampleInfo.
C2_FirstSampleRandomAccess ==
  \A t \in {video_track, audio_track} :
    TrackSamples(t) # <<>> => TrackSamples(t)[1].random_access

\* ---- C3
\* C3: every put_sample for the video track happens with the track's
\* required parameter sets captured (SPS and PPS for AVC; VPS, SPS and PPS
\* for HEVC), and a video track that holds samples holds them too.
C3_ParamSetsBeforeSamples ==
  /\ \A i \in 1..Len(puts) :
       puts[i].video =>
         /\ puts[i].sps
         /\ puts[i].pps
         /\ (puts[i].codec = "HEVC" => puts[i].vps)
  /\ (TrackSamples(video_track) # <<>> => ParamSetsCaptured(video_track))

\* ---- C4
\* the sink starts with the 32 header bytes (the ftyp box and the free box
\* of the header literal) and, in non-fragmented mode, the 16-byte large-size
\* mdat header right after them; none of them occurs a second time
HeaderFirst(w, frag) ==
  \/ w.segs = <<>>
  \/ /\ Len(w.segs) >= 2
     /\ w.segs[1].kind = "ftyp" /\ w.segs[1].off = 0
     /\ w.segs[2].kind = "free" /\ w.segs[2].off = w.segs[1].len
     /\ w.segs[1].len + w.segs[2].len = 32
     /\ CountKind(w, "ftyp") = 1
     /\ CountKind(w, "free") = 1
     /\ IF frag THEN CountKind(w, "mdat_hdr") = 0
        ELSE /\ Len(w.segs) >= 3
             /\ w.segs[3].kind = "mdat_hdr"
             /\ w.segs[3].off = 32
             /\ w.segs[3].len = 16
             /\ w.segs[3].size = 1
             /\ CountKind(w, "mdat_hdr") = 1

\* C4: the header is written exactly once and first: the first encode_video,
\* encode_audio or flush puts the 32 header bytes at offset 0, followed in
\* non-fragmented mode by the 16-byte large-size mdat header, before any
\* other byte; no later call writes them again; set_video_track,
\* set_audio_track, set_language and set_create_time write nothing.
C4_HeaderOnceAndFirst ==
  [][ /\ HeaderFirst(writer', fragment')
      /\ (IsSetup(call') => writer' = writer)
      /\ ((IsEncode(call') \/ call'.op = "flush") =>
            /\ writer'.segs # <<>>
            /\ (writer.segs # <<>> =>
                  \A i \in 1..(IF fragment THEN 2 ELSE 3) :
                    /\ writer'.segs[i].kind = writer.segs[i].kind
                    /\ writer'.segs[i].off = writer.segs[i].off
                    /\ writer'.segs[i].len = writer.segs[i].len))
    ]_vars

\* the header is in place, samples follow it, and a setup operation has
\* just been called on the muxer
C4_Witness ==
  /\ IsSetup(call)
  /\ ~fragment
  /\ create_time # 0
  /\ CountKind(writer, "nal") > 0
  /\ HeaderFirst(writer, fragment)
  /\ writer.segs # <<>>

\* ---- C5
\* moof and mdat alternate, starting with a moof, from segment i on
RECURSIVE FragmentPairs(_, _)
FragmentPairs(segs, i) ==
  \/ i > Len(segs)
  \/ /\ i + 1 <= Len(segs)
     /\ segs[i].kind = "moof"
     /\ segs[i+1].kind = "mdat"
     /\ FragmentPairs(segs, i + 2)

\* C5: in fragmented mode the sink holds the header, then exactly one moov
\* that contains mvex, written when the first keyframe is accepted (so never
\* while no keyframe has been accepted) and before the first moof, then zero
\* or more (moof, mdat) pairs, every moof immediately followed by one mdat.
C5_FragmentedLayout ==
  (fragment /\ ~panicked /\ writer.segs # <<>>) =>
    /\ HeaderFirst(writer, fragment)
    /\ Contiguous(writer.segs)
    /\ CountKind(writer, "moov") <= 1
    /\ (Len(writer.segs) > 2 =>
          /\ writer.segs[3].kind = "moov"
          /\ writer.segs[3].val = 1
          /\ FragmentPairs(writer.segs, 4))
    /\ (CountKind(writer, "moov") = 1 => send_first_random_access)

\* ---- C6
\* C6: in fragmented mode every encode_video or encode_audio call that puts
\* a sample (its input is not dropped) adds exactly one moof and one mdat to
\* the sink, however many NAL units its buffer holds.
C6_OnePairPerCall ==
  [][ (fragment /\ IsEncode(call') /\ ~panicked' /\ puts' # <<>>) =>
        /\ CountKind(writer', "moof") = CountKind(writer, "moof") + 1
        /\ CountKind(writer', "mdat") = CountKind(writer, "mdat") + 1
    ]_vars

\* ---- C7
\* C7: in fragmented mode the k-th moof of the sink carries
\* mfhd.sequence_number = k, video and audio fragments alike.
C7_SequenceNumbers ==
  LET moofs == SegsOfKind(writer, {"moof"})
  IN /\ \A k \in 1..Len(moofs) : moofs[k].val = k
     /\ (fragment /\ ~panicked => Len(moofs) = fregment_id)

\* a video fragment followed by an audio fragment
C7_Witness ==
  LET mdats == SegsOfKind(writer, {"mdat"})
  IN /\ fragment
     /\ CountKind(writer, "moof") = 2
     /\ Len(mdats) = 2
     /\ mdats[1].aux2 = 1
     /\ mdats[2].aux2 = 0

\* ---- C8
\* C8: for every fragment, video or audio, trun.data_offset equals the moof
\* size plus 8: counted from the first byte of the moof it is the offset of
\* the first byte after the 8-byte header of the mdat that follows the moof.
C8_DataOffset ==
  \A i \in 1..Len(writer.segs) :
    writer.segs[i].kind = "moof" =>
      /\ writer.segs[i].aux = writer.segs[i].size + 8
      /\ writer.segs[i].len = writer.segs[i].size
      /\ (~panicked =>
            /\ i < Len(writer.segs)
            /\ writer.segs[i+1].kind = "mdat"
            /\ writer.segs[i].off + writer.segs[i].aux = writer.segs[i+1].off + 8)

\* a random-access video fragment, an ordinary video fragment or an audio
\* fragment: the three shapes of trun
C8_Witness ==
  LET mdats == SegsOfKind(writer, {"mdat"})
      moofs == SegsOfKind(writer, {"moof"})
  IN /\ Len(moofs) = 2
     /\ Len(mdats) = 2
     /\ moofs[1].size # moofs[2].size
     /\ mdats[1].aux2 = 1
     /\ ~panicked

\* ---- C9
\* C9: in non-fragmented mode no encode_* call writes a moov; the first
\* flush that completes patches the mdat size with the bytes written after
\* the 32 header bytes and appends exactly one moov at the end of the sink,
\* leaving every other byte alone; a later flush leaves the sink as it is.
C9_MoovOnFirstFlush ==
  [][ ~fragment =>
        /\ CountKind(writer', "moov") <= 1
        /\ (IsEncode(call') => CountKind(writer', "moov") = CountKind(writer, "moov"))
        /\ (call'.op = "flush" /\ CountKind(writer, "moov") = 0 /\ ~panicked') =>
             LET n == Len(writer'.segs)
                 moov == writer'.segs[n]
             IN /\ CountKind(writer', "moov") = 1
                /\ moov.kind = "moov"
                /\ moov.val = 0
                /\ moov.off = Max(SinkLen(writer), 48)
                /\ moov.off + moov.len = SinkLen(writer')
                /\ writer'.segs[3].val = moov.off - 32
                /\ n = Max(Len(writer.segs), 3) + 1
                /\ \A i \in 1..Len(writer.segs) :
                     i # 3 => writer'.segs[i] = writer.segs[i]
        /\ (call'.op = "flush" /\ CountKind(writer, "moov") >= 1) => writer' = writer
    ]_vars

\* a second flush, after a sample was put behind the moov of the first
C9_Witness ==
  LET n == Len(writer.segs)
  IN /\ ~fragment
     /\ ~panicked
     /\ call.op = "flush"
     /\ CountKind(writer, "moov") = 1
     /\ writer.segs[n].kind # "moov"

\* ---- C10
\* C10: in non-fragmented mode, when flush has followed the encode_* calls
\* (the moov is the last thing in the sink), the value at offset 40 equals
\* the sink length minus 32 minus the moov size, which is 16 plus the bytes
\* of the samples written, and the sink cursor is at the end of the moov.
C10_MdatSize ==
  LET n == Len(writer.segs)
      moov == writer.segs[n]
      hdr == writer.segs[3]
  IN (~fragment /\ ~panicked /\ n > 0 /\ moov.kind = "moov") =>
       /\ hdr.kind = "mdat_hdr"
       /\ hdr.off + 8 = MDAT_SIZE_POS
       /\ hdr.val = SinkLen(writer) - 32 - moov.len
       /\ hdr.val = 16 + SumLen(SegsOfKind(writer, SampleKinds))
       /\ writer.pos = moov.off + moov.len
       /\ writer.pos = SinkLen(writer)
       /\ write_pos = writer.pos

\* flushed with a video sample and an audio sample in the mdat
C10_Witness ==
  LET n == Len(writer.segs)
  IN /\ ~fragment
     /\ ~panicked
     /\ call.op = "flush"
     /\ n > 0
     /\ writer.segs[n].kind = "moov"
     /\ CountKind(writer, "nal") = 1
     /\ CountKind(writer, "audio") = 1
     /\ writer.segs[3].val > 16

\* ---- C11
\* the size a top-level box declares: the 32-bit size field, or the 64-bit
\* largesize when the size field is 1; 0 for bytes that are not a box header
DeclaredSize(g) ==
  IF g.kind = "mdat_hdr" /\ g.size = 1 THEN g.val
  ELSE IF g.kind \in {"ftyp", "free", "moov", "moof", "mdat"} THEN g.size
  ELSE 0

\* where a reader that starts at offset at and hops from box to box by the
\* declared sizes comes to rest; -1 when it lands on bytes that are not the
\* start of a box
RECURSIVE BoxWalk(_, _)
BoxWalk(segs, at) ==
  LET here == SelectSeq(segs, LAMBDA g : g.off = at)
  IN IF here = <<>> THEN at
     ELSE IF DeclaredSize(here[1]) < 8 THEN -1
     ELSE BoxWalk(segs, at + DeclaredSize(here[1]))

\* C11: for every produced output (fragmented: after any calls;
\* non-fragmented: after a call sequence that ends with flush) the walk over
\* the top-level boxes from offset 0 visits only box starts and ends exactly
\* at the length of the sink.
C11_TopLevelWalk ==
  (~panicked /\ (fragment \/ call.op = "flush")) =>
    BoxWalk(writer.segs, 0) = SinkLen(writer)

\* ---- C12
\* the result of a sample-table writer called on its own
TableWritten == ret # None /\ arg.fn \in {"write_stts", "write_stss"}

\* C12: for every box written through mp4_box! the size stored at the box
\* start equals the position after the body minus the position of the box
\* start, the cursor ends one past the last byte of the box, and no byte
\* outside the box is modified: what was in the buffer before the box is as
\* it was and nothing lies beyond the end of the box.
C12_SelfSizingBoxes ==
  TableWritten =>
    LET c == Unwrap(ret)
        mp4_box_start_pos == StblCursor.pos
        mp4_box_size == c.buf[mp4_box_start_pos \div 4 + 1]
    IN /\ mp4_box_size = c.pos - mp4_box_start_pos
       /\ c.pos = mp4_box_start_pos + mp4_box_size
       /\ SubSeq(c.buf, 1, mp4_box_start_pos \div 4) = StblCursor.buf
       /\ Len(c.buf) * 4 = c.pos

\* ---- C13
\* first_mb_in_slice of an AVC slice NAL unit: the Exp-Golomb value that
\* follows the one-byte NAL header
FirstMbInSlice(nal) == ue_bits(Tail(nal), 32)

\* the put_sample calls made for AVC slices that do not start a picture
ContinuationPuts(ps) ==
  SelectSeq(ps, LAMBDA p : p.video /\ p.codec = "AVC" /\ FirstMbInSlice(p.data) # 0)

\* C13: in non-fragmented mode an AVC slice NAL unit whose first_mb_in_slice
\* is non-zero creates no SampleInfo; its length + 4 is added to sample_size
\* of the last video sample.  So an encode_video call adds one SampleInfo
\* per slice it puts that starts a picture, and a picture put in two slices
\* is one sample of size len(first) + 4 + len(second) + 4.
C13_ContinuationSlices ==
  [][ (~fragment /\ call'.op = "encode_video" /\ ~panicked' /\ IsSome(video_track)) =>
        LET n == Len(puts')
            samples == TrackSamples(video_track')
        IN /\ Len(samples) = Len(TrackSamples(video_track)) + n
                               - Len(ContinuationPuts(puts'))
           /\ (n >= 2 /\ Len(ContinuationPuts(<<puts'[n]>>)) = 1
                 /\ Len(ContinuationPuts(<<puts'[n - 1]>>)) = 0) =>
                samples[Len(samples)].sample_size
                  = puts'[n - 1].len + 4 + puts'[n].len + 4
    ]_vars

\* ---- C14
\* C14: parameter sets are write-once: a VPS, SPS or PPS a track holds is
\* left as it is by every later encode_video call, whatever parameter sets
\* the call carries; and parameter-set NAL units are never put as samples: a
\* call puts at most its picture NAL units, and a call whose buffer holds
\* parameter sets only puts nothing, records nothing and writes nothing but
\* the one-time header.
C14_ParamSetsWriteOnce ==
  [][ (call'.op = "encode_video" /\ IsSome(video_track)) =>
        LET old == Unwrap(video_track)
            new == Unwrap(video_track')
        IN /\ (IsSome(old.vps) => new.vps = old.vps)
           /\ (IsSome(old.sps) => new.sps = old.sps)
           /\ (IsSome(old.pps) => new.pps = old.pps)
           /\ Len(puts') <= call'.slices
           /\ (call'.slices = 0 /\ ~panicked') =>
                /\ puts' = <<>>
                /\ new.samples = old.samples
                /\ BeyondHeader(writer') = BeyondHeader(writer)
                /\ (init_header => writer' = writer)
    ]_vars

\* the AVC track holds the SPS and PPS that came with its first keyframe and
\* a sample, and the last call fed a buffer of parameter sets only, which for
\* AVC is the buffer with the other SPS and PPS
C14_Witness ==
  /\ call.op = "encode_video"
  /\ call.slices = 0
  /\ ~panicked
  /\ IsSome(video_track)
  /\ Unwrap(video_track).codec = "AVC"
  /\ Unwrap(video_track).sps = Some(AvcSps)
  /\ Unwrap(video_track).pps = Some(AvcPps)
  /\ Unwrap(video_track).samples # <<>>

\* ---- C15
\* C15: configuration is frozen once the header has been emitted: a
\* set_video_track, set_audio_track, set_language or set_create_time call
\* that follows an encode_* call leaves the tracks (ids, parameter sets,
\* durations, sample lists), the track id allocator, the language and the
\* create time as they are.
C15_ConfigFrozen ==
  [][ (init_header /\ IsEncode(call) /\ IsSetup(call')) =>
        /\ video_track' = video_track
        /\ audio_track' = audio_track
        /\ track_ids' = track_ids
        /\ language' = language
        /\ create_time' = create_time
    ]_vars

\* ---- C16
\* C16: encode_video on a buffer with two adjacent start codes returns
\* normally: the empty NAL unit that split_nalu yields between them is
\* skipped and the other NAL units are processed.  No other input of the
\* model makes encode_video fail, so no encode_video call fails at all.
C16_EmptyNalTolerated ==
  call.op = "encode_video" => ~panicked

\* ---- C17
\* C17: with a sink that never fails no public call fails; in particular
\* while no video track is set (no track at all, or an audio track only)
\* encode_video and encode_audio drop their input, record no sample and
\* return, and flush returns too.
C17_NoFailureWithoutVideoTrack ==
  IsNone(video_track) =>
    /\ ~panicked
    /\ TrackSamples(audio_track) = <<>>
    /\ CountKind(writer, "audio") = 0

\* ---- C18
\* d is the units, in order, each behind a 3-byte or a 4-byte start code
RECURSIVE Reprefixed(_, _)
Reprefixed(d, units) ==
  IF units = <<>> THEN d = <<>>
  ELSE \E sc \in {StartCode3, StartCode4} :
         /\ Len(d) >= Len(sc) + Len(Head(units))
         /\ SubSeq(d, 1, Len(sc)) = sc
         /\ SubSeq(d, Len(sc) + 1, Len(sc) + Len(Head(units))) = Head(units)
         /\ Reprefixed(SubSeq(d, Len(sc) + Len(Head(units)) + 1, Len(d)), Tail(units))

\* the bytes 00 00 01 occur in u
HoldsStartCode(u) ==
  \E i \in 1..(Len(u) - 2) : u[i] = 0 /\ u[i + 1] = 0 /\ u[i + 2] = 1

\* C18: on a buffer that begins with a start code split_nalu yields exactly
\* the byte runs between start codes, in order, each without its start code:
\* no unit holds a start code, and the units, each behind its start code,
\* make up the buffer again.
C18_SplitRoundTrip ==
  (ret # None /\ arg.fn = "split_nalu") =>
    /\ \A i \in 1..Len(Unwrap(ret)) : ~HoldsStartCode(Unwrap(ret)[i])
    /\ Reprefixed(arg.data, Unwrap(ret))

\* ---- C19
\* the (count, delta) pairs of an stts box that starts at word w of buf
SttsEntries(buf, w) ==
  [e \in 1..((Len(buf) - (w + 3)) \div 2) |->
     [count |-> buf[w + 2 + 2 * e], delta |-> buf[w + 3 + 2 * e]]]

\* the delta sequence the pairs stand for
RECURSIVE Expand(_)
Expand(entries) ==
  IF entries = <<>> THEN <<>>
  ELSE [k \in 1..Head(entries).count |-> Head(entries).delta] \o Expand(Tail(entries))

RECURSIVE SumCounts(_)
SumCounts(entries) ==
  IF entries = <<>> THEN 0 ELSE Head(entries).count + SumCounts(Tail(entries))

\* the number of maximal runs of equal consecutive sample_delta values
MaximalRuns(samples) ==
  Cardinality({ i \in 1..Len(samples) :
                  i = Len(samples) \/ samples[i].sample_delta # samples[i + 1].sample_delta })

\* C19: the stts box is a lossless run-length encoding of the sample deltas:
\* the entry_count written equals the number of maximal runs of equal
\* consecutive sample_delta values (0 for an empty list) and is the number of
\* pairs in the box, the counts sum to the number of samples, and expanding
\* the (count, delta) pairs in order gives the delta sequence back.
C19_SttsLossless ==
  (ret # None /\ arg.fn = "write_stts") =>
    LET c == Unwrap(ret)
        w == StblCursor.pos \div 4 + 1
        entries == SttsEntries(c.buf, w)
    IN /\ c.buf[w + 1] = "stts"
       /\ c.buf[w + 3] = MaximalRuns(arg.samples)
       /\ Len(entries) = c.buf[w + 3]
       /\ Len(c.buf) = w + 3 + 2 * Len(entries)
       /\ SumCounts(entries) = Len(arg.samples)
       /\ Expand(entries) = [i \in 1..Len(arg.samples) |-> arg.samples[i].sample_delta]

\* an stts box written for four samples in three runs, the middle one of two
\* samples
C19_Witness ==
  /\ ret # None
  /\ arg.fn = "write_stts"
  /\ Len(arg.samples) = 4
  /\ arg.samples[1].sample_delta # arg.samples[2].sample_delta
  /\ arg.samples[2].sample_delta = arg.samples[3].sample_delta
  /\ arg.samples[3].sample_delta # arg.samples[4].sample_delta
  /\ Unwrap(ret).buf[StblCursor.pos \div 4 + 4] = 3

\* ---- C20
\* the 1-based indices of the random-access samples, in increasing order
SyncSamples(samples) ==
  SelectSeq([i \in 1..Len(samples) |-> i], LAMBDA i : samples[i].random_access)

\* C20: the content of the stss box of a video track, after its version and
\* flags, is an entry count equal to the number of random-access samples
\* followed by exactly the 1-based indices of those samples in increasing
\* order (a single IDR sample gives the count 1 and the index 1).
C20_StssContent ==
  (ret # None /\ arg.fn = "write_stss") =>
    LET c == Unwrap(ret)
        w == StblCursor.pos \div 4 + 1
    IN /\ c.buf[w + 1] = "stss"
       /\ c.buf[w] = c.pos - StblCursor.pos
       /\ SubSeq(c.buf, w + 3, c.pos \div 4)
            = <<Len(SyncSamples(arg.samples))>> \o SyncSamples(arg.samples)

\* ---------------------------------------------------------------------------
\* C21  chunk offsets: stco or co64, one entry per sample, nothing truncated

\* the words of the box that write_chunk_offsets left behind the stbl header
ChunkBox == SubSeq(Unwrap(ret).buf, 3, Len(Unwrap(ret).buf))

\* the offset an entry of the box stands for
ChunkEntry(i) ==
  IF ChunkBox[2] = "co64"
    THEN <<ChunkBox[3 + 2 * i], ChunkBox[4 + 2 * i][1], ChunkBox[4 + 2 * i][2]>>
    ELSE <<0, ChunkBox[4 + i][1], ChunkBox[4 + i][2]>>

\* C21: for a track with samples the chunk-offset box is stco when the last
\* sample's offset fits in 32 bits and co64 otherwise, it holds one entry per
\* sample, and every entry is the sample's full 64-bit offset.
C21_ChunkOffsets ==
  (arg.fn = "write_chunk_offsets" /\ IsSome(ret) /\ Len(arg.samples) > 0) =>
    /\ ChunkBox[2] = (IF arg.samples[Len(arg.samples)].offset[1] = 0 THEN "stco" ELSE "co64")
    /\ ChunkBox[4] = Len(arg.samples)
    /\ Len(ChunkBox) = 4 + (IF ChunkBox[2] = "co64" THEN 2 ELSE 1) * Len(arg.samples)
    /\ ChunkBox[1] = 4 * Len(ChunkBox)
    /\ \A i \in 1..Len(arg.samples) : ChunkEntry(i) = arg.samples[i].offset

\* a list that starts below 4 GiB and ends beyond it has been written
C21_Witness ==
  /\ arg.fn = "write_chunk_offsets" /\ IsSome(ret)
  /\ Len(arg.samples) > 1
  /\ arg.samples[1].offset[1] = 0
  /\ arg.samples[Len(arg.samples)].offset[1] > 0
  /\ ChunkBox[2] = "co64"

\* ---------------------------------------------------------------------------
\* C22  encode_video: milliseconds to 90 kHz ticks

\* duration_ms * 90000 / 1000 in unbounded integers (1000 divides 90000)
ExactTicks(duration_ms) == duration_ms * (VIDEO_TIMESCALE \div 1000)

\* C22: an encode_video(data, duration_ms) call on a muxer with a video track
\* adds exactly duration_ms * 90000 / 1000 ticks to the video track's
\* duration for any u32 duration_ms, the sample it records has that tick
\* count as sample_delta, and the global duration becomes the maximum of its
\* previous value (0 before the first call) and the track's duration.
C22_MsToTicks ==
  (arg.fn = "encode_video" /\ call.op = "encode_video") =>
    /\ ~panicked
    /\ Unwrap(video_track).duration = ExactTicks(arg.duration_ms)
    /\ \A i \in 1..Len(Unwrap(video_track).samples) :
         Unwrap(video_track).samples[i].sample_delta = ExactTicks(arg.duration_ms)
    /\ duration = Max(0, Unwrap(video_track).duration)

\* ---------------------------------------------------------------------------
\* C23  tkhd duration in the movie timescale

\* C23: the duration written in tkhd is floor(track.duration * 1000 /
\* track.timescale), for the video track and for an audio track at every
\* supported sample rate.
C23_TkhdDuration ==
  (arg.fn = "write_tkhd" /\ IsSome(ret)) =>
    Unwrap(ret) = (arg.track.duration * MOVIE_TIMESCALE) \div arg.track.timescale

\* ---------------------------------------------------------------------------
\* C24  flush in fragmented mode

\* what a flush step put behind the segments the sink already held
FlushAdded == SubSeq(writer'.segs, Len(writer.segs) + 1, Len(writer'.segs))

\* C24: in fragmented mode a flush that returns never overwrites bytes of
\* the sink and writes no mdat size field: it only appends the header when
\* it has not been emitted yet and the moov when a keyframe has been seen and
\* the moov has not been emitted yet; with header and moov out it writes
\* nothing.
C24_FragmentedFlush ==
  [][(fragment /\ call'.op = "flush" /\ ~panicked') =>
       /\ Len(writer'.segs) >= Len(writer.segs)
       /\ SubSeq(writer'.segs, 1, Len(writer.segs)) = writer.segs
       /\ \A i \in 1..Len(FlushAdded) : FlushAdded[i].kind \in {"ftyp", "free", "moov"}
       /\ (\E i \in 1..Len(FlushAdded) : FlushAdded[i].kind = "ftyp") <=> ~init_header
       /\ (\E i \in 1..Len(FlushAdded) : FlushAdded[i].kind = "moov")
            <=> (send_first_random_access /\ ~write_moov)
       /\ (init_header /\ write_moov => writer' = writer)]_vars

\* ---------------------------------------------------------------------------
\* C25  flush is terminal

\* C25: after a flush has returned, a further encode_video, encode_audio or
\* flush call leaves the bytes of the sink and the sample tables of both
\* tracks unchanged (stated for the call that follows the flush).
C25_FlushTerminal ==
  [][(call.op = "flush" /\ ~panicked /\ call'.op \in {"encode_video", "encode_audio", "flush"}) =>
       /\ writer'.segs = writer.segs
       /\ TrackSamples(video_track') = TrackSamples(video_track)
       /\ TrackSamples(audio_track') = TrackSamples(audio_track)]_vars

\* ---------------------------------------------------------------------------
\* C26  unsigned Exp-Golomb decoding

\* bit k (from 0) of the data, most significant bit of each byte first, 0
\* past the end
BitAt(data, k) ==
  IF k >= 8 * Len(data) THEN 0 ELSE (data[k \div 8 + 1] \div (2 ^ (7 - (k % 8)))) % 2

\* the length of the run of leading zeros, looked for among the first n + 1 bits
ZeroRun(data, n) ==
  IF \E k \in 0..n : BitAt(data, k) = 1
    THEN CHOOSE k \in 0..n : BitAt(data, k) = 1 /\ \A j \in 0..(k - 1) : BitAt(data, j) = 0
    ELSE n + 1

\* the count bits that follow the 1 bit, as a number
RECURSIVE SuffixBits(_, _, _)
SuffixBits(data, from, count) ==
  IF count = 0 THEN 0
  ELSE 2 * SuffixBits(data, from, count - 1) + BitAt(data, from + count - 1)

\* C26: ue_bits(max_prefix) on a fresh reader returns
\* ((1 << count) | the next count bits) - 1 when the run of leading zeros has
\* length count < max_prefix, and 0 when max_prefix zeros come before a 1 bit;
\* bits past the end of the data read as 0.
C26_UeBits ==
  (arg.fn = "ue_bits" /\ IsSome(ret)) =>
    LET count == ZeroRun(arg.data, arg.bits) IN
    Unwrap(ret) = IF count < arg.bits
                    THEN 2 ^ count + SuffixBits(arg.data, count + 1, count) - 1
                    ELSE 0

\* a value with a non-empty prefix has been decoded from a code word that
\* runs past the end of the data, and one with a non-zero suffix
C26_Witness ==
  /\ arg.fn = "ue_bits" /\ IsSome(ret)
  /\ ZeroRun(arg.data, arg.bits) \in 1..(arg.bits - 1)
  /\ \/ /\ 2 * ZeroRun(arg.data, arg.bits) + 1 > 8 * Len(arg.data)
        /\ Unwrap(ret) = 127
     \/ /\ SuffixBits(arg.data, ZeroRun(arg.data, arg.bits) + 1, ZeroRun(arg.data, arg.bits)) > 0
        /\ Unwrap(ret) = 191

\* ---------------------------------------------------------------------------
\* C27  the samples tile the mdat payload

\* the recorded samples of both tracks
BothTracks == TrackSamples(video_track) \o TrackSamples(audio_track)

RECURSIVE SumSizes(_)
SumSizes(samples) ==
  IF samples = <<>> THEN 0 ELSE Head(samples).sample_size + SumSizes(Tail(samples))

C28_TrunSizeIsMdatBody ==
  (fragment /\ ~panicked) =>
    \A i \in 1..(Len(writer.segs) - 1) :
      (writer.segs[i].kind = "moof" /\ writer.segs[i + 1].kind = "mdat") =>
        /\ writer.segs[i].aux2 = writer.segs[i + 1].size - 8
        /\ writer.segs[i].aux2 =
             writer.segs[i + 1].aux + (IF writer.segs[i + 1].aux2 = 1 THEN 4 ELSE 0)

\* ---------------------------------------------------------------------------
\* C29  track duration and the sample deltas

RECURSIVE SumDeltas(_)
SumDeltas(samples) ==
  IF samples = <<>> THEN 0 ELSE Head(samples).sample_delta + SumDeltas(Tail(samples))

\* C29: in non-fragmented mode, after any sequence of encode calls, the
\* accumulated duration of each track equals the sum of sample_delta over the
\* samples recorded for it (dropped input adds nothing, a call that records
\* several samples adds the delta of each).
C29_DurationIsSumOfDeltas ==
  (~fragment /\ ~panicked) =>
    /\ IsSome(video_track) =>
         Unwrap(video_track).duration = SumDeltas(Unwrap(video_track).samples)
    /\ IsSome(audio_track) =>
         Unwrap(audio_track).duration = SumDeltas(Unwrap(audio_track).samples)

\* ---------------------------------------------------------------------------
\* C30  the moof fits the scratch buffer

\* C30: the size of the moof that put_sample builds in its 4096-byte scratch
\* buffer is fixed by the track type and the sample type, whatever the
\* payload length, and is below 4096, so the moof never overruns the buffer.
C30_MoofFitsScratch ==
  (arg.fn = "write_moof" /\ IsSome(ret)) =>
    /\ Unwrap(ret).size = (IF arg.track.track_type = "Video"
                             THEN IF arg.sample_type = "RandomAccess" THEN 84 ELSE 80
                             ELSE 76)
    /\ Unwrap(ret).end = Unwrap(ret).size
    /\ Unwrap(ret).size < SCRATCH_SIZE

\* the moof of a sample larger than the scratch buffer has been built
C30_Witness ==
  /\ arg.fn = "write_moof" /\ IsSome(ret)
  /\ arg.data_len > SCRATCH_SIZE
  /\ Unwrap(ret).data_size = arg.data_len + 4

====
